---- MODULE Spec2Model ----
(***************************************************************************)
(* The account store of shop-backend (src/server.js, Postgres variant):    *)
(* the users and customers tables, the password hashing helpers and the    *)
(* /register, /login, /change-password, /delete-account, /forgot-password  *)
(* and /admin/customers handlers.                                          *)
(*                                                                         *)
(* JavaScript strings are sequences of one-character strings, Buffers are  *)
(* sequences of bytes (0..255).  A handler is cut at each `await` of a     *)
(* database query: one action is the execution of one query together with  *)
(* the synchronous code that follows it up to the next query.              *)
(***************************************************************************)
EXTENDS Naturals, Integers, Sequences, FiniteSets, Bags

(***************************************************************************)
(* Values of the JavaScript runtime.                                       *)
(***************************************************************************)
\* `undefined`: a destructured field or array slot that is not there.
Undefined == <<"undefined">>
\* JSON `null`.
Null == <<"null">>
\* A field a JSON body does not carry.
Absent == "absent"

IsString(v) == v # Undefined /\ v # Null

\* `!v` for a string or a missing field: missing and "" are both falsy.
Falsy(v) == v = Undefined \/ v = Null \/ v = << >>

(***************************************************************************)
(* String.prototype.trim / toLowerCase and SQL LOWER over the characters   *)
(* the model uses.                                                         *)
(***************************************************************************)
LowerChar(c) ==
    CASE c = "A" -> "a"
      [] c = "B" -> "b"
      [] OTHER -> c

toLowerCase(s) == [i \in 1..Len(s) |-> LowerChar(s[i])]

\* SQL LOWER(text): lower-cases, does not trim.
LOWER(s) == [i \in 1..Len(s) |-> LowerChar(s[i])]

IsSpace(c) == c = " "

RECURSIVE TrimStart(_)
TrimStart(s) ==
    IF s # << >> /\ IsSpace(Head(s)) THEN TrimStart(Tail(s)) ELSE s

RECURSIVE TrimEnd(_)
TrimEnd(s) ==
    IF s # << >> /\ IsSpace(s[Len(s)])
    THEN TrimEnd(SubSeq(s, 1, Len(s) - 1))
    ELSE s

trim(s) == TrimEnd(TrimStart(s))

(***************************************************************************)
(* Hex encoding: Buffer.toString("hex") and Buffer.from(s, "hex").         *)
(***************************************************************************)
HexDigits ==
    <<"0", "1", "2", "3", "4", "5", "6", "7",
      "8", "9", "a", "b", "c", "d", "e", "f">>

HexChars == {HexDigits[i] : i \in 1..16}

IsHexChar(c) == c \in HexChars

HexVal(c) == (CHOOSE i \in 1..16 : HexDigits[i] = c) - 1

\* buf.toString("hex"): two lower-case digits per byte.
ToHex(bytes) ==
    [i \in 1..(2 * Len(bytes)) |->
        IF i % 2 = 1
        THEN HexDigits[(bytes[(i + 1) \div 2] \div 16) + 1]
        ELSE HexDigits[(bytes[i \div 2] % 16) + 1]]

\* Buffer.from(s, "hex"): decodes pairs of digits and stops at the first
\* pair that is not two hex digits; a trailing single digit is dropped.
\* Buffer.from(undefined, "hex") throws a TypeError: see verifyPassword.
BufferFromHex(s) ==
    LET pairs == Len(s) \div 2
        valid(k) == IsHexChar(s[2 * k - 1]) /\ IsHexChar(s[2 * k])
        bad == {k \in 1..pairs : ~valid(k)}
        n == IF bad = {} THEN pairs
             ELSE (CHOOSE k \in bad : \A j \in bad : k <= j) - 1
    IN  [k \in 1..n |-> 16 * HexVal(s[2 * k - 1]) + HexVal(s[2 * k])]

(***************************************************************************)
(* String.prototype.split(":").                                            *)
(***************************************************************************)
\* The parts between the separators, in order.
Split(s) ==
    LET seps == {i \in 1..Len(s) : s[i] = ":"}
        \* Position of the k-th separator; 0 before the first part and
        \* Len(s) + 1 after the last.
        sep(k) == IF k = 0 THEN 0
                  ELSE IF k > Cardinality(seps) THEN Len(s) + 1
                  ELSE CHOOSE i \in seps : Cardinality({j \in seps : j < i}) = k - 1
    IN  [k \in 1..(Cardinality(seps) + 1) |-> SubSeq(s, sep(k - 1) + 1, sep(k) - 1)]

\* Array destructuring: const [a, b] = arr.
At(arr, i) == IF i <= Len(arr) THEN arr[i] ELSE Undefined

(***************************************************************************)
(* crypto.randomBytes and crypto.pbkdf2Sync.                               *)
(***************************************************************************)
\* The byte values the random source is let to draw from.
RandomByteValues == {10, 175}

\* crypto.randomBytes(n): any of the buffers the model lets it draw.
RandomBytes(n) == {[i \in 1..n |-> b] : b \in RandomByteValues}

\* Bytes of the salt: crypto.randomBytes(16).
SaltBytes == 16
\* PBKDF2 iteration count and derived key length in bytes.
Iterations == 10000
KeyLen == 64
\* Bytes of a temporary password: crypto.randomBytes(4).
TempPasswordBytes == 4
\* Minimum password length accepted by /register and /change-password.
MinPasswordLength == 6

Alphabet ==
    HexDigits \o <<":", "s", "r", "t", "p", "w", "h", "u", "n", " ", "A", "B", "|">>

CharCode(c) == CHOOSE i \in 1..Len(Alphabet) : Alphabet[i] = c

PrfModulus == 16777216

RECURSIVE Absorb(_, _, _)
Absorb(h, s, i) ==
    IF i > Len(s) THEN h
    ELSE Absorb((h * 31 + CharCode(s[i])) % PrfModulus, s, i + 1)

\* crypto.pbkdf2Sync(password, salt, iterations, keylen, "sha512"): a
\* deterministic function of (password, salt, iterations) yielding keylen
\* bytes.  The key derivation itself is the library's; it is modelled as a
\* keyed mixing function, collision-free on the values the model draws
\* (Pbkdf2CollisionFree).
pbkdf2Sync(password, salt, iterations, keylen) ==
    LET seed == Absorb(Absorb(Absorb(iterations % PrfModulus, password, 1), <<"|">>, 1), salt, 1)
    IN  [i \in 1..keylen |->
            CASE i % 3 = 1 -> seed % 256
              [] i % 3 = 2 -> (seed \div 256) % 256
              [] OTHER     -> (seed \div 65536) % 256]

\* crypto.timingSafeEqual(a, b): throws a RangeError when the byte lengths
\* differ, otherwise compares all bytes.
timingSafeEqual(a, b) ==
    IF Len(a) # Len(b) THEN "throws"
    ELSE IF a = b THEN "true" ELSE "false"

\* Fault variant of hashPasswordWithSalt: the key is derived without the
\* salt that is stored beside it.
hashPasswordUnsalted(password, salt) ==
    LET hash == ToHex(pbkdf2Sync(password, << >>, Iterations, KeyLen))
    IN  salt \o <<":">> \o hash

\* Fault variant of hashPasswordWithSalt: the password is stored as it is.
hashPasswordPlain(password, salt) == password

\* hashPassword(password, salt) with the salt already drawn:
\* `${salt}:${hash}`.
hashPasswordWithSalt(password, salt) ==
    LET hash == ToHex(pbkdf2Sync(password, salt, Iterations, KeyLen))
    IN  salt \o <<":">> \o hash

\* hashPassword(password): every string it may return, one per salt
\* crypto.randomBytes(16) may draw.
hashPassword(password) ==
    {hashPasswordWithSalt(password, ToHex(b)) : b \in RandomBytes(SaltBytes)}

\* verifyPassword(password, stored): "true", "false", or "throws" when
\* Buffer.from(undefined, "hex") or timingSafeEqual raises.
verifyPassword(password, stored) ==
    LET parts == Split(stored)
        salt == At(parts, 1)
        storedHash == At(parts, 2)
        hash == ToHex(pbkdf2Sync(password, salt, Iterations, KeyLen))
    IN  IF storedHash = Undefined THEN "throws"
        ELSE timingSafeEqual(BufferFromHex(storedHash), BufferFromHex(hash))

(***************************************************************************)
(* Request inputs.                                                         *)
(***************************************************************************)
\* Handler slots: requests the server is processing concurrently.
Procs == {"p1", "p2"}

\* Email strings a client may send; << >> is a missing or empty field.
EmailInputs == {<< >>, <<"a">>, <<"A">>, <<" ", "a">>, <<"b">>}

PwSecret == <<"s", "e", "c", "r", "e", "t">>
PwOther == <<"p", ":", "s", "s", "w", "d", "1">>
PwShort == <<"a", "b", "c">>

\* Password strings a client may send; << >> is a missing or empty field.
PasswordInputs == {<< >>, PwShort, PwSecret, PwOther}

\* Values of the x-admin-key header; Undefined is no header.
AdminKeyInputs == {Undefined, << >>, <<"k">>, <<"x">>}

\* Values of the ADMIN_KEY environment variable; << >> is unset or empty.
AdminKeyConfigs == {<< >>, <<"k">>}

\* Rows the customers table may hold.
MaxCustomers == 1

\* Requests the server accepts in one run.
MaxRequests == 3

(***************************************************************************)
(* hashPassword and verifyPassword on the values the model draws,          *)
(* evaluated once.                                                         *)
(***************************************************************************)
\* crypto.randomBytes(4).toString("hex"): the temporary passwords.
TempPasswords == {ToHex(b) : b \in RandomBytes(TempPasswordBytes)}

KnownPasswords == (PasswordInputs \ {<< >>}) \cup TempPasswords

HashMemo == {<<pw, hashPassword(pw)>> : pw \in KnownPasswords}

\* hashPassword(password).
Hashes(password) == (CHOOSE t \in HashMemo : t[1] = password)[2]

KnownHashes == UNION {t[2] : t \in HashMemo}

VerifyMemo ==
    {<<pw, stored, verifyPassword(pw, stored)>> : pw \in KnownPasswords, stored \in KnownHashes}

\* verifyPassword(password, stored).
Verified(password, stored) ==
    IF \E t \in VerifyMemo : t[1] = password /\ t[2] = stored
    THEN (CHOOSE t \in VerifyMemo : t[1] = password /\ t[2] = stored)[3]
    ELSE verifyPassword(password, stored)

(***************************************************************************)
(* State.                                                                  *)
(***************************************************************************)
VARIABLES
    ADMIN_KEY,   \* process.env.ADMIN_KEY || ""
    customers,   \* the customers table: a bag of rows [email, active]
    users,       \* the users table: rows [email, password_hash] in insertion order
    pc,          \* per slot: "idle" or the query the handler awaits
    local,       \* per slot: the handler's request fields and local constants
    last,        \* the response sent last: [op, status, body]
    outbox,      \* the messages handed to transporter.sendMail
    requests,    \* requests accepted so far
    check,       \* one application of hashPassword / verifyPassword
    browser,     \* the login page: localStorage, location and the error box
    checkout,    \* one cart item on its way from a shop script to Stripe
    sqlite       \* the SQLite account store (users.db) and its last result

vars == <<ADMIN_KEY, customers, users, pc, local, last, outbox, requests, check,
          browser, checkout, sqlite>>

\* No application of the hashing helpers on their own.
NoCheck ==
    [phase |-> "start", hashed |-> Undefined, stored |-> Undefined,
     password |-> Undefined, result |-> "none"]

\* login.html as loaded: nothing stored, no error shown.
NoBrowser == [loggedInEmail |-> Null, page |-> "login.html", error |-> Absent]

\* No cart item under way.
NoCheckout ==
    [phase |-> "start", script |-> "none", price |-> 0, sent |-> 0, unit_amount |-> 0]

\* users.db as created: no row, no call made.  rows is the users table, set
\* the password each row was last given, call .. returned the last call of
\* the store: its function, arguments, whether it threw and what it returned
\* ({} for null or undefined).
NoSqlite ==
    [rows |-> << >>, set |-> << >>, calls |-> 0, call |-> "none",
     email |-> << >>, password |-> << >>, threw |-> FALSE, returned |-> {}]

NullUser == [email |-> Null, password_hash |-> Null]

\* The locals of a handler that is not running; a running handler holds
\* the ones it still reads.
IdleLocal ==
    [email |-> Undefined, password |-> Undefined, oldPassword |-> Undefined,
     newPassword |-> Undefined, emailLower |-> Undefined,
     passwordHash |-> Undefined, tempPassword |-> Undefined]

(***************************************************************************)
(* Response bodies.                                                        *)
(***************************************************************************)
MsgRequired == "Email es jelszo kotelezo."
MsgPasswordTooShort == "A jelszonak legalabb 6 karakter hosszunak kell lennie."
MsgNotAllowed == "Ezzel az email cimmel nem lehet regisztralni. Hasznald azt az email cimet, amellyel az elofizetes keszult, vagy vedd fel velunk a kapcsolatot."
MsgExists == "Ezzel az email cimmel mar van fiok."
MsgRegistered == "Sikeres regisztracio!"
MsgRegisterFault == "Szerver hiba regisztracio kozben: "
\* err.message of the INSERT that users.email UNIQUE refuses.
UniqueViolationText == "duplicate key value violates unique constraint"
MsgBadLogin == "Hibas email vagy jelszo."
MsgLoginFault == "Szerver hiba bejelentkezes kozben."
MsgChangeRequired == "Email, regi es uj jelszo kotelezo."
MsgNewPasswordTooShort == "Az uj jelszonak legalabb 6 karakter hosszunak kell lennie."
MsgUserNotFound == "Felhasznalo nem talalhato."
MsgBadOldPassword == "Hibas regi jelszo."
MsgPasswordChanged == "Jelszo sikeresen megvaltoztatva."
MsgChangeFault == "Szerver hiba jelszovaltas kozben."
MsgBadPassword == "Hibas jelszo."
MsgDeleted == "Fiok torolve."
MsgDeleteFault == "Szerver hiba fiok torlese kozben."
MsgEmailRequired == "Email kotelezo."
MsgForgotAck == "Ha letezik ilyen email cim, uj ideiglenes jelszot hoztunk letre."
MsgForbidden == "Nem jogosult."
MsgCustomerSaved == "Ugyfel elmentve."
MsgCustomerDeactivated == "Ugyfel inaktivalva."
MsgMailFault == "sendMail failed"
\* The texts login.js puts into the error box.
MsgEnterEmail == "Kerlek, add meg az email cimed."
MsgNotInSystem == "Ez az email cim nincs a rendszerben."

\* A JSON body; a field the body does not carry is Absent (Undefined for
\* the string-valued email and tempPassword).  detail is the err.message
\* text an error string carries, Absent when it carries none; customers is
\* {} or holds the rows of the customers table the body lists.
Body(success, error, message, email, tempPassword, token) ==
    [success |-> success, error |-> error, message |-> message,
     email |-> email, tempPassword |-> tempPassword, token |-> token,
     detail |-> Absent, customers |-> {}]

\* { error: msg }
ErrorBody(msg) == Body(Absent, msg, Absent, Undefined, Undefined, Absent)

\* { error: msg + String(err.message) }
FaultBody(msg, detail) == [ErrorBody(msg) EXCEPT !.detail = detail]

\* { success: true, message: msg }
SuccessBody(msg) == Body("true", Absent, msg, Undefined, Undefined, Absent)

Response(op, status, body) == [op |-> op, status |-> status, body |-> body]

NoResponse == Response("none", 0, ErrorBody(Absent))

(***************************************************************************)
(* Queries.                                                                *)
(***************************************************************************)
\* Fault variant of readCustomerEmails: the query without WHERE active.
readAllCustomerEmails(table) ==
    {LOWER(r.email) : r \in BagToSet(table)}

\* readCustomerEmails(): SELECT DISTINCT LOWER(email) ... WHERE active.
readCustomerEmails(table) ==
    {LOWER(r.email) : r \in {c \in BagToSet(table) : c.active}}

\* Fault variant of findUserByEmail: result.rows[1] || null.
findUserBySecondRow(table, email) ==
    LET rows == SelectSeq(table, LAMBDA r : LOWER(r.email) = LOWER(email))
    IN  IF Len(rows) >= 2 THEN rows[2] ELSE NullUser

\* Fault variant of findUserByEmail: the SELECT without its WHERE clause.
findFirstUser(table, email) ==
    IF table # << >> THEN table[1] ELSE NullUser

\* findUserByEmail(email): result.rows[0] || null.
findUserByEmail(table, email) ==
    LET rows == SelectSeq(table, LAMBDA r : LOWER(r.email) = LOWER(email))
    IN  IF rows # << >> THEN rows[1] ELSE NullUser

\* Fault variant of UsersEmailKeyViolated: users.email without UNIQUE.
UsersEmailNoKey(table, email) == FALSE

\* The UNIQUE constraint on users.email: an INSERT of an email string the
\* table already holds is refused.
UsersEmailKeyViolated(table, email) ==
    \E i \in 1..Len(table) : table[i].email = email

\* Fault variant of createUser: the INSERT is lost.
createUserLost(table, email, passwordHash) == table

\* createUser(email, passwordHash): the table after the INSERT.
createUser(table, email, passwordHash) ==
    Append(table, [email |-> email, password_hash |-> passwordHash])

\* Fault variant of updateUserPassword: WHERE email = $2, without LOWER.
updateUserPasswordExact(table, email, newPasswordHash) ==
    [i \in 1..Len(table) |->
        IF table[i].email = email
        THEN [table[i] EXCEPT !.password_hash = newPasswordHash]
        ELSE table[i]]

\* Fault variant of updateUserPassword: the UPDATE is lost.
updateUserPasswordLost(table, email, newPasswordHash) == table

\* updateUserPassword(email, newPasswordHash): the table after the UPDATE.
updateUserPassword(table, email, newPasswordHash) ==
    [i \in 1..Len(table) |->
        IF LOWER(table[i].email) = LOWER(email)
        THEN [table[i] EXCEPT !.password_hash = newPasswordHash]
        ELSE table[i]]

\* deleteUser(email): the table after the DELETE.
deleteUser(table, email) ==
    SelectSeq(table, LAMBDA r : LOWER(r.email) # LOWER(email))

\* UPDATE customers SET active = FALSE WHERE LOWER(email) = LOWER($1).
deactivateCustomers(table, email) ==
    LET rows == BagToSet(table)
        off(c) == IF LOWER(c.email) = LOWER(email) THEN [c EXCEPT !.active = FALSE] ELSE c
        after == {off(c) : c \in rows}
        count(d) == BagCardinality([c \in {x \in rows : off(x) = d} |-> table[c]])
    IN  [d \in after |-> count(d)]

(***************************************************************************)
(* Initial state: empty tables, no request in flight.                      *)
(***************************************************************************)
Init ==
    /\ ADMIN_KEY \in AdminKeyConfigs
    /\ customers = EmptyBag
    /\ users = << >>
    /\ pc = [p \in Procs |-> "idle"]
    /\ local = [p \in Procs |-> IdleLocal]
    /\ last = NoResponse
    /\ outbox = {}
    /\ requests = 0
    /\ check = NoCheck
    /\ browser = NoBrowser
    /\ checkout = NoCheckout
    /\ sqlite = NoSqlite

\* Express hands a request to the handler in slot p.
Accept(p) ==
    /\ pc[p] = "idle"
    /\ requests < MaxRequests
    /\ requests' = requests + 1

\* res.status(s).json(body): the handler in slot p ends.
Respond(p, op, status, body) ==
    /\ last' = Response(op, status, body)
    /\ pc' = [pc EXCEPT ![p] = "idle"]
    /\ local' = [local EXCEPT ![p] = IdleLocal]

\* The handler in slot p awaits its next query.
Await(p, label, loc) ==
    /\ pc' = [pc EXCEPT ![p] = label]
    /\ local' = [local EXCEPT ![p] = loc]
    /\ last' = last

(***************************************************************************)
(* POST /admin/customers and /admin/customers/deactivate behind            *)
(* requireAdmin.                                                           *)
(***************************************************************************)
\* Fault variant of requireAdmin: without the !ADMIN_KEY test.
requireAdminKeyMatch(adminKey, key) == key = adminKey

\* requireAdmin: whether next() is called.
requireAdmin(adminKey, key) == ~(Falsy(adminKey) \/ key # adminKey)

\* GET /admin/customers.
AdminListCustomers(p, key) ==
    /\ Accept(p)
    /\ UNCHANGED <<check, browser, checkout, sqlite, ADMIN_KEY, customers, users, outbox>>
    /\ IF ~requireAdmin(ADMIN_KEY, key)
       THEN Respond(p, "admin-list", 403, ErrorBody(MsgForbidden))
       ELSE Respond(p, "admin-list", 200,
                    [Body("true", Absent, Absent, Undefined, Undefined, Absent)
                         EXCEPT !.customers = {customers}])

AdminSaveCustomer(p, key, email) ==
    /\ Accept(p)
    /\ BagCardinality(customers) < MaxCustomers
    /\ UNCHANGED <<check, browser, checkout, sqlite, ADMIN_KEY, users, outbox>>
    /\ IF ~requireAdmin(ADMIN_KEY, key)
       THEN /\ Respond(p, "admin-save", 403, ErrorBody(MsgForbidden))
            /\ UNCHANGED customers
       ELSE IF Falsy(email)
       THEN /\ Respond(p, "admin-save", 400, ErrorBody(MsgEmailRequired))
            /\ UNCHANGED customers
       ELSE LET emailLower == toLowerCase(trim(email))
            IN  /\ customers' = customers (+) SetToBag({[email |-> emailLower, active |-> TRUE]})
                /\ Respond(p, "admin-save", 200, SuccessBody(MsgCustomerSaved))

AdminDeactivateCustomer(p, key, email) ==
    /\ Accept(p)
    /\ UNCHANGED <<check, browser, checkout, sqlite, ADMIN_KEY, users, outbox>>
    /\ IF ~requireAdmin(ADMIN_KEY, key)
       THEN /\ Respond(p, "admin-deactivate", 403, ErrorBody(MsgForbidden))
            /\ UNCHANGED customers
       ELSE IF Falsy(email)
       THEN /\ Respond(p, "admin-deactivate", 400, ErrorBody(MsgEmailRequired))
            /\ UNCHANGED customers
       ELSE /\ customers' = deactivateCustomers(customers, email)
            /\ Respond(p, "admin-deactivate", 200, SuccessBody(MsgCustomerDeactivated))

(***************************************************************************)
(* POST /register.                                                         *)
(***************************************************************************)
\* Request validation and the allow-list query.
Register(p, email, password) ==
    /\ Accept(p)
    /\ UNCHANGED <<check, browser, checkout, sqlite, ADMIN_KEY, customers, users, outbox>>
    /\ IF Falsy(email) \/ Falsy(password)
       THEN Respond(p, "register", 400, ErrorBody(MsgRequired))
       ELSE IF Len(password) < MinPasswordLength
       THEN Respond(p, "register", 400, ErrorBody(MsgPasswordTooShort))
       ELSE LET emailLower == toLowerCase(trim(email))
                allowedEmails == readCustomerEmails(customers)
            IN  IF emailLower \notin allowedEmails
                THEN Respond(p, "register", 400, ErrorBody(MsgNotAllowed))
                ELSE Await(p, "register:find",
                           [IdleLocal EXCEPT !.email = email,
                                             !.password = password,
                                             !.emailLower = emailLower])

\* The existence query, then hashPassword.
RegisterFind(p) ==
    /\ pc[p] = "register:find"
    /\ UNCHANGED <<check, browser, checkout, sqlite, ADMIN_KEY, customers, users, outbox, requests>>
    /\ LET existing == findUserByEmail(users, local[p].emailLower)
       IN  IF existing # NullUser
           THEN Respond(p, "register", 400, ErrorBody(MsgExists))
           ELSE \E passwordHash \in Hashes(local[p].password) :
                    Await(p, "register:insert",
                          [IdleLocal EXCEPT !.emailLower = local[p].emailLower,
                                            !.passwordHash = passwordHash])

\* The INSERT; a refused INSERT is caught and answered 500.
RegisterInsert(p) ==
    /\ pc[p] = "register:insert"
    /\ UNCHANGED <<check, browser, checkout, sqlite, ADMIN_KEY, customers, outbox, requests>>
    /\ IF UsersEmailKeyViolated(users, local[p].emailLower)
       THEN /\ users' = users
            /\ Respond(p, "register", 500, FaultBody(MsgRegisterFault, UniqueViolationText))
       ELSE /\ users' = createUser(users, local[p].emailLower, local[p].passwordHash)
            /\ Respond(p, "register", 200, SuccessBody(MsgRegistered))

(***************************************************************************)
(* POST /login.                                                            *)
(***************************************************************************)
\* Fault variant of LoginResponse: a missing account is answered 404.
LoginResponseNotFound(table, email, password) ==
    IF Falsy(email) \/ Falsy(password)
    THEN Response("login", 400, ErrorBody(MsgRequired))
    ELSE LET user == findUserByEmail(table, email)
         IN  IF user = NullUser
             THEN Response("login", 404, ErrorBody(MsgUserNotFound))
             ELSE IF Verified(password, user.password_hash) = "true"
             THEN Response("login", 200,
                           Body("true", Absent, Absent, user.email, Undefined, Absent))
             ELSE Response("login", 401, ErrorBody(MsgBadLogin))

\* The response of /login against a users table.
LoginResponse(table, email, password) ==
    IF Falsy(email) \/ Falsy(password)
    THEN Response("login", 400, ErrorBody(MsgRequired))
    ELSE LET user == findUserByEmail(table, email)
             ok == IF user = NullUser THEN "false"
                   ELSE Verified(password, user.password_hash)
         IN  IF ok = "throws"
             THEN Response("login", 500, ErrorBody(MsgLoginFault))
             ELSE IF ok = "false"
             THEN Response("login", 401, ErrorBody(MsgBadLogin))
             ELSE Response("login", 200,
                           Body("true", Absent, Absent, user.email, Undefined, Absent))

Login(p, email, password) ==
    /\ Accept(p)
    /\ UNCHANGED <<check, browser, checkout, sqlite, ADMIN_KEY, customers, users, outbox, pc, local>>
    /\ last' = LoginResponse(users, email, password)

(***************************************************************************)
(* login.js: the submit handler of the login form, with the /login request *)
(* it sends.                                                               *)
(***************************************************************************)
\* value is the content of the email field; the body sent is { email }.
LoginFormSubmit(p, value) ==
    LET email == trim(value)
    IN  /\ browser.page = "login.html"
        /\ UNCHANGED <<check, checkout, sqlite, ADMIN_KEY, customers, users, outbox,
                       pc, local>>
        /\ IF Falsy(email)
           THEN /\ browser' = [browser EXCEPT !.error = MsgEnterEmail]
                /\ UNCHANGED <<last, requests>>
           ELSE LET res == LoginResponse(users, email, Undefined)
                    ok == res.status >= 200 /\ res.status <= 299
                IN  /\ Accept(p)
                    /\ last' = res
                    /\ browser' =
                           IF ok /\ res.body.success = "true"
                           THEN [loggedInEmail |-> email, page |-> "index.html",
                                 error |-> Absent]
                           ELSE [browser EXCEPT !.error = MsgNotInSystem]

(***************************************************************************)
(* POST /change-password.                                                  *)
(***************************************************************************)
\* Fault variant of ChangePassword: the new hash is written before the old
\* password is verified.
ChangePasswordWriteFirst(p, email, oldPassword, newPassword) ==
    /\ Accept(p)
    /\ UNCHANGED <<check, browser, checkout, sqlite, ADMIN_KEY, customers, outbox>>
    /\ IF Falsy(email) \/ Falsy(oldPassword) \/ Falsy(newPassword)
       THEN /\ users' = users
            /\ Respond(p, "change-password", 400, ErrorBody(MsgChangeRequired))
       ELSE IF Len(newPassword) < MinPasswordLength
       THEN /\ users' = users
            /\ Respond(p, "change-password", 400, ErrorBody(MsgNewPasswordTooShort))
       ELSE LET user == findUserByEmail(users, email)
            IN  IF user = NullUser
                THEN /\ users' = users
                     /\ Respond(p, "change-password", 404, ErrorBody(MsgUserNotFound))
                ELSE IF Verified(oldPassword, user.password_hash) # "true"
                THEN /\ \E newHash \in Hashes(newPassword) :
                            users' = updateUserPassword(users, email, newHash)
                     /\ Respond(p, "change-password", 401, ErrorBody(MsgBadOldPassword))
                ELSE /\ users' = users
                     /\ \E newHash \in Hashes(newPassword) :
                            Await(p, "change-password:update",
                                  [IdleLocal EXCEPT !.email = email,
                                                    !.oldPassword = oldPassword,
                                                    !.newPassword = newPassword,
                                                    !.passwordHash = newHash])

\* Request validation, the lookup, verifyPassword and hashPassword.
ChangePassword(p, email, oldPassword, newPassword) ==
    /\ Accept(p)
    /\ UNCHANGED <<check, browser, checkout, sqlite, ADMIN_KEY, customers, users, outbox>>
    /\ IF Falsy(email) \/ Falsy(oldPassword) \/ Falsy(newPassword)
       THEN Respond(p, "change-password", 400, ErrorBody(MsgChangeRequired))
       ELSE IF Len(newPassword) < MinPasswordLength
       THEN Respond(p, "change-password", 400, ErrorBody(MsgNewPasswordTooShort))
       ELSE LET user == findUserByEmail(users, email)
                ok == IF user = NullUser THEN "false"
                      ELSE Verified(oldPassword, user.password_hash)
            IN  IF user = NullUser
                THEN Respond(p, "change-password", 404, ErrorBody(MsgUserNotFound))
                ELSE IF ok = "throws"
                THEN Respond(p, "change-password", 500, ErrorBody(MsgChangeFault))
                ELSE IF ok = "false"
                THEN Respond(p, "change-password", 401, ErrorBody(MsgBadOldPassword))
                ELSE \E newHash \in Hashes(newPassword) :
                         Await(p, "change-password:update",
                               [IdleLocal EXCEPT !.email = email,
                                                 !.oldPassword = oldPassword,
                                                 !.newPassword = newPassword,
                                                 !.passwordHash = newHash])

\* The UPDATE and the success response.
ChangePasswordUpdate(p) ==
    /\ pc[p] = "change-password:update"
    /\ UNCHANGED <<check, browser, checkout, sqlite, ADMIN_KEY, customers, outbox, requests>>
    /\ users' = updateUserPassword(users, local[p].email, local[p].passwordHash)
    /\ Respond(p, "change-password", 200, SuccessBody(MsgPasswordChanged))

(***************************************************************************)
(* POST /delete-account.                                                   *)
(***************************************************************************)
DeleteAccount(p, email, password) ==
    /\ Accept(p)
    /\ UNCHANGED <<check, browser, checkout, sqlite, ADMIN_KEY, customers, users, outbox>>
    /\ IF Falsy(email) \/ Falsy(password)
       THEN Respond(p, "delete-account", 400, ErrorBody(MsgRequired))
       ELSE LET user == findUserByEmail(users, email)
                ok == IF user = NullUser THEN "false"
                      ELSE Verified(password, user.password_hash)
            IN  IF user = NullUser
                THEN Respond(p, "delete-account", 404, ErrorBody(MsgUserNotFound))
                ELSE IF ok = "throws"
                THEN Respond(p, "delete-account", 500, ErrorBody(MsgDeleteFault))
                ELSE IF ok = "false"
                THEN Respond(p, "delete-account", 401, ErrorBody(MsgBadPassword))
                ELSE Await(p, "delete-account:delete",
                           [IdleLocal EXCEPT !.email = email])

DeleteAccountDelete(p) ==
    /\ pc[p] = "delete-account:delete"
    /\ UNCHANGED <<check, browser, checkout, sqlite, ADMIN_KEY, customers, outbox, requests>>
    /\ users' = deleteUser(users, local[p].email)
    /\ Respond(p, "delete-account", 200, SuccessBody(MsgDeleted))

(***************************************************************************)
(* POST /forgot-password.                                                  *)
(***************************************************************************)
\* The lookup, then crypto.randomBytes(4) and hashPassword.
ForgotPassword(p, email) ==
    /\ Accept(p)
    /\ UNCHANGED <<check, browser, checkout, sqlite, ADMIN_KEY, customers, users, outbox>>
    /\ IF Falsy(email)
       THEN Respond(p, "forgot-password", 400, ErrorBody(MsgEmailRequired))
       ELSE LET user == findUserByEmail(users, email)
            IN  IF user = NullUser
                THEN Respond(p, "forgot-password", 200,
                             Body("true", Absent, MsgForgotAck, Undefined, Null, Absent))
                ELSE \E tempPassword \in TempPasswords :
                     \E newHash \in Hashes(tempPassword) :
                         Await(p, "forgot-password:update",
                               [IdleLocal EXCEPT !.email = email,
                                                 !.tempPassword = tempPassword,
                                                 !.passwordHash = newHash])

\* The UPDATE and the response.
ForgotPasswordUpdate(p) ==
    /\ pc[p] = "forgot-password:update"
    /\ UNCHANGED <<check, browser, checkout, sqlite, ADMIN_KEY, customers, outbox, requests>>
    /\ users' = updateUserPassword(users, local[p].email, local[p].passwordHash)
    /\ Respond(p, "forgot-password", 200,
               Body("true", Absent, MsgForgotAck, Undefined, local[p].tempPassword, Absent))

(***************************************************************************)
(* POST /notify-payment: the only caller of transporter.sendMail.          *)
(***************************************************************************)
\* The fixed recipient; a string the model never takes apart.
PaymentRecipient == <<"your.email@example.com">>

NotifyPayment(p, delivered) ==
    /\ Accept(p)
    /\ UNCHANGED <<check, browser, checkout, sqlite, ADMIN_KEY, customers, users>>
    /\ IF delivered
       THEN /\ outbox' = outbox \cup {[to |-> PaymentRecipient, text |-> <<"payment">>]}
            /\ Respond(p, "notify-payment", 200,
                       Body("true", Absent, Absent, Undefined, Undefined, Absent))
       ELSE /\ outbox' = outbox
            /\ Respond(p, "notify-payment", 500, FaultBody("", MsgMailFault))

(***************************************************************************)
(* The server.                                                             *)
(***************************************************************************)
Next ==
    \/ \E p \in Procs, key \in AdminKeyInputs : AdminListCustomers(p, key)
    \/ \E p \in Procs, key \in AdminKeyInputs, email \in EmailInputs :
           AdminSaveCustomer(p, key, email)
    \/ \E p \in Procs, key \in AdminKeyInputs, email \in EmailInputs :
           AdminDeactivateCustomer(p, key, email)
    \/ \E p \in Procs, email \in EmailInputs, password \in PasswordInputs :
           Register(p, email, password)
    \/ \E p \in Procs : RegisterFind(p)
    \/ \E p \in Procs : RegisterInsert(p)
    \/ \E p \in Procs, email \in EmailInputs, password \in PasswordInputs :
           Login(p, email, password)
    \/ \E p \in Procs, email \in EmailInputs,
          oldPassword \in PasswordInputs, newPassword \in PasswordInputs :
           ChangePassword(p, email, oldPassword, newPassword)
    \/ \E p \in Procs : ChangePasswordUpdate(p)
    \/ \E p \in Procs, email \in EmailInputs, password \in PasswordInputs :
           DeleteAccount(p, email, password)
    \/ \E p \in Procs : DeleteAccountDelete(p)
    \/ \E p \in Procs, email \in EmailInputs : ForgotPassword(p, email)
    \/ \E p \in Procs : ForgotPasswordUpdate(p)
    \/ \E p \in Procs, delivered \in BOOLEAN : NotifyPayment(p, delivered)

Spec == Init /\ [][Next]_vars

(***************************************************************************)
(* The hashing helpers on their own: one hashPassword or one stored value  *)
(* of any shape, then one verifyPassword.                                  *)
(***************************************************************************)
PwSecretLonger == PwSecret \o <<"s">>
PwSecretUpper == <<"s", "e", "c", "r", "e", "t", "A">>

\* Passwords the helpers are applied to.
CheckPasswords == KnownPasswords \cup {PwSecretLonger, PwSecretUpper, <<":">>}

SomeSalt == ToHex(CHOOSE b \in RandomBytes(SaltBytes) : TRUE)
SomeKey == ToHex(pbkdf2Sync(PwSecret, SomeSalt, Iterations, KeyLen))

\* Stored values hashPassword does not produce.
OtherStored ==
    { << >>,                                          \* empty string
      SomeSalt,                                       \* no separator
      SomeSalt \o <<":">>,                            \* empty derived key
      SomeSalt \o <<":">> \o SubSeq(SomeKey, 1, 8),   \* short derived key
      SomeSalt \o <<":">> \o SomeKey \o <<"0", "0">>, \* long derived key
      SomeSalt \o <<":">> \o [i \in 1..Len(SomeKey) |-> "s"],  \* not hex digits
      <<":">> \o SomeKey,                             \* empty salt
      SomeSalt \o <<":">> \o SomeKey \o <<":">> \o PwSecret }  \* a third part

InitHash ==
    /\ ADMIN_KEY = << >>
    /\ customers = EmptyBag
    /\ users = << >>
    /\ pc = [p \in Procs |-> "idle"]
    /\ local = [p \in Procs |-> IdleLocal]
    /\ last = NoResponse
    /\ outbox = {}
    /\ requests = 0
    /\ check = NoCheck
    /\ browser = NoBrowser
    /\ checkout = NoCheckout
    /\ sqlite = NoSqlite

Frame ==
    UNCHANGED <<ADMIN_KEY, customers, users, pc, local, last, outbox, requests,
                browser, checkout, sqlite>>

\* stored = hashPassword(password).
HashStep(password) ==
    /\ check.phase = "start"
    /\ \E stored \in hashPassword(password) :
           check' = [check EXCEPT !.phase = "stored", !.hashed = password, !.stored = stored]
    /\ Frame

\* stored is a value that did not come from hashPassword.
StoreStep(stored) ==
    /\ check.phase = "start"
    /\ check' = [check EXCEPT !.phase = "stored", !.stored = stored]
    /\ Frame

\* result = verifyPassword(password, stored).
VerifyStep(password) ==
    /\ check.phase = "stored"
    /\ check' = [check EXCEPT !.phase = "verified", !.password = password,
                              !.result = verifyPassword(password, check.stored)]
    /\ Frame

NextHash ==
    \/ \E password \in CheckPasswords : HashStep(password)
    \/ \E stored \in OtherStored : StoreStep(stored)
    \/ \E password \in CheckPasswords : VerifyStep(password)

SpecHash == InitHash /\ [][NextHash]_vars

\* pbkdf2Sync as modelled has no collision on the passwords and salts drawn.
Pbkdf2CollisionFree ==
    LET salts == {ToHex(b) : b \in RandomBytes(SaltBytes)} \cup {<< >>}
        dom == CheckPasswords \X salts
    IN  \A x \in dom, y \in dom :
            x # y => pbkdf2Sync(x[1], x[2], Iterations, KeyLen)
                       # pbkdf2Sync(y[1], y[2], Iterations, KeyLen)

(***************************************************************************)
(* /change-password on its own: the server starts on tables that hold one  *)
(* allow-listed, registered account (the tables outlive the process) and   *)
(* serves /change-password requests only, two at a time.                   *)
(***************************************************************************)
InitChangeRace ==
    /\ ADMIN_KEY \in AdminKeyConfigs
    /\ customers = SetToBag({[email |-> <<"a">>, active |-> TRUE]})
    /\ users \in {<<[email |-> <<"a">>, password_hash |-> h]>> : h \in Hashes(PwSecret)}
    /\ pc = [p \in Procs |-> "idle"]
    /\ local = [p \in Procs |-> IdleLocal]
    /\ last = NoResponse
    /\ outbox = {}
    /\ requests = 0
    /\ check = NoCheck
    /\ browser = NoBrowser
    /\ checkout = NoCheckout
    /\ sqlite = NoSqlite

NextChangeRace ==
    \/ \E p \in Procs, email \in EmailInputs,
          oldPassword \in PasswordInputs, newPassword \in PasswordInputs :
           ChangePassword(p, email, oldPassword, newPassword)
    \/ \E p \in Procs : ChangePasswordUpdate(p)

SpecChangeRace == InitChangeRace /\ [][NextChangeRace]_vars

(***************************************************************************)
(* The account endpoints and the login page on their own: the server       *)
(* starts on tables that hold one registered account.                      *)
(***************************************************************************)
NextAccount ==
    \/ \E p \in Procs, email \in EmailInputs, password \in PasswordInputs :
           Login(p, email, password)
    \/ \E p \in Procs, value \in EmailInputs : LoginFormSubmit(p, value)
    \/ \E p \in Procs, email \in EmailInputs,
          oldPassword \in PasswordInputs, newPassword \in PasswordInputs :
           ChangePassword(p, email, oldPassword, newPassword)
    \/ \E p \in Procs : ChangePasswordUpdate(p)
    \/ \E p \in Procs, email \in EmailInputs, password \in PasswordInputs :
           DeleteAccount(p, email, password)
    \/ \E p \in Procs : DeleteAccountDelete(p)
    \/ \E p \in Procs, email \in EmailInputs : ForgotPassword(p, email)
    \/ \E p \in Procs : ForgotPasswordUpdate(p)

SpecAccount == InitChangeRace /\ [][NextAccount]_vars

(***************************************************************************)
(* One cart item from a shop script to POST /create-checkout-session.      *)
(* A JavaScript number is held as its count of thousandths; a field an     *)
(* object does not carry is {}, a field it carries is {number}.            *)
(***************************************************************************)
\* Cart prices: eighths of a pound.
MaxPriceSteps == 60
PriceInputs == {125 * k : k \in 1..MaxPriceSteps}

ShopScripts == {"script.js", "database.js"}

\* Math.round(x) as an integer, for x >= 0.
MathRound(x) == (x + 500) \div 1000

\* The number n as a count of thousandths.
FromInteger(n) == n * 1000

\* a ?? b
Coalesce(a, b) == IF a # {} THEN a ELSE b

\* The cart entry the checkout click of a script sends for an item.
\* script.js: { price: parseFloat(item.price) };
\* database.js: { amount: Math.round(item.price * 100) }.
formattedCart(script, price) ==
    IF script = "script.js"
    THEN [price |-> {price}, amount |-> {}]
    ELSE [price |-> {}, amount |-> {FromInteger(MathRound(price * 100))}]

\* cart.map(...) of /create-checkout-session for one entry: its unit_amount.
line_items(i) ==
    LET amount == CHOOSE x \in Coalesce(i.price, i.amount) : TRUE
        unit_amount == MathRound(amount * 100)
    IN  IF unit_amount < 30 THEN 30 ELSE unit_amount

\* The server and the other pages take no step.
ServerStarted ==
    /\ ADMIN_KEY = << >>
    /\ customers = EmptyBag
    /\ users = << >>
    /\ pc = [p \in Procs |-> "idle"]
    /\ local = [p \in Procs |-> IdleLocal]
    /\ last = NoResponse
    /\ outbox = {}
    /\ requests = 0

InitCheckout ==
    /\ ServerStarted
    /\ check = NoCheck
    /\ browser = NoBrowser
    /\ checkout = NoCheckout
    /\ sqlite = NoSqlite

CheckoutFrame ==
    UNCHANGED <<ADMIN_KEY, customers, users, pc, local, last, outbox, requests,
                check, browser, sqlite>>

\* An item is put into the cart of a page running one of the scripts.
AddToCart(script, price) ==
    /\ checkout.phase = "start"
    /\ checkout' = [checkout EXCEPT !.phase = "cart", !.script = script, !.price = price]
    /\ CheckoutFrame

\* The cart button: the entry is posted.
CartButtonClick ==
    /\ checkout.phase = "cart"
    /\ checkout' = [checkout EXCEPT !.phase = "posted",
                                    !.sent = formattedCart(checkout.script, checkout.price)]
    /\ CheckoutFrame

\* The server builds the line item it hands to Stripe.
CreateCheckoutSession ==
    /\ checkout.phase = "posted"
    /\ checkout' = [checkout EXCEPT !.phase = "session",
                                    !.unit_amount = line_items(checkout.sent)]
    /\ CheckoutFrame

NextCheckout ==
    \/ \E script \in ShopScripts, price \in PriceInputs : AddToCart(script, price)
    \/ CartButtonClick
    \/ CreateCheckoutSession

SpecCheckout == InitCheckout /\ [][NextCheckout]_vars

(***************************************************************************)
(* The SQLite account store: registerUser, validateUser, updatePassword    *)
(* over users.db, with bcrypt as the password hash.  The calls are         *)
(* synchronous, so each is one step.                                       *)
(***************************************************************************)
\* Calls of the store in one run.
MaxCalls == 3

\* Cost factor handed to bcrypt.hashSync.
BcryptRounds == 10

\* Salts bcrypt.hashSync may draw.
BcryptSalts == {<<"0">>, <<"1">>}

\* Passwords of 72 and of 73 bytes with the same first 72 bytes.
PwLong == [i \in 1..72 |-> "p"]
PwLonger == PwLong \o <<"w">>

SqliteEmails == {<<"a">>, <<"A">>}
SqlitePasswords == {PwSecret, PwOther, PwLong, PwLonger}
SqliteNames == {<<"n">>}

\* The key bcrypt derives from a password: its first 72 bytes.
bcryptKey(password) ==
    SubSeq(password, 1, IF Len(password) < 72 THEN Len(password) ELSE 72)

\* The bytes lo..hi of a key, mixed by position.
RECURSIVE bcryptMix(_, _, _)
bcryptMix(key, lo, hi) ==
    IF lo > hi THEN 0
    ELSE IF lo = hi THEN CharCode(key[lo]) * (lo * lo + 7)
    ELSE LET mid == (lo + hi) \div 2
         IN  (bcryptMix(key, lo, mid) + bcryptMix(key, mid + 1, hi)) % PrfModulus

\* The digest bcrypt computes from (cost, salt, key): the library's
\* function, modelled as a mixing function that is collision-free on the
\* values the model draws.
bcryptDigest(password, salt, rounds) ==
    LET key == bcryptKey(password)
    IN  (Absorb(rounds, salt, 1) * 8191 + bcryptMix(key, 1, Len(key))) % PrfModulus

\* bcrypt.hashSync(password, rounds) with the salt it drew.
hashSyncWithSalt(password, rounds, salt) ==
    [rounds |-> rounds, salt |-> salt, digest |-> bcryptDigest(password, salt, rounds)]

\* bcrypt.compareSync(password, hash)
compareSync(password, hash) ==
    bcryptDigest(password, hash.salt, hash.rounds) = hash.digest

\* SELECT * FROM users WHERE email = ?  (the positions of the rows)
SelectByEmail(rows, email) == {i \in 1..Len(rows) : rows[i].email = email}

InitSqlite ==
    /\ ServerStarted
    /\ check = NoCheck
    /\ browser = NoBrowser
    /\ checkout = NoCheckout
    /\ sqlite = NoSqlite

SqliteFrame ==
    UNCHANGED <<ADMIN_KEY, customers, users, pc, local, last, outbox, requests,
                check, browser, checkout>>

\* The call registered in the store's record.
Called(fn, email, password, threw, returned) ==
    [sqlite EXCEPT !.calls = @ + 1, !.call = fn, !.email = email,
                   !.password = password, !.threw = threw, !.returned = returned]

registerUser(name, email, password) ==
    /\ sqlite.calls < MaxCalls
    /\ SqliteFrame
    /\ IF SelectByEmail(sqlite.rows, email) # {}
       THEN sqlite' = Called("registerUser", email, password, TRUE, {})
       ELSE \E salt \in BcryptSalts :
              LET passwordHash == hashSyncWithSalt(password, BcryptRounds, salt)
                  row == [name |-> name, email |-> email, passwordHash |-> passwordHash]
              IN  sqlite' = [Called("registerUser", email, password, FALSE,
                                    {[name |-> name, email |-> email]})
                                EXCEPT !.rows = Append(@, row),
                                       !.set = Append(@, password)]

validateUser(email, password) ==
    /\ sqlite.calls < MaxCalls
    /\ SqliteFrame
    /\ LET found == SelectByEmail(sqlite.rows, email)
       IN  IF found = {}
           THEN sqlite' = Called("validateUser", email, password, FALSE, {})
           ELSE LET user == sqlite.rows[CHOOSE i \in found : TRUE]
                    ok == compareSync(password, user.passwordHash)
                IN  sqlite' = Called("validateUser", email, password, FALSE,
                                     IF ok THEN {user} ELSE {})

updatePassword(email, newPassword) ==
    /\ sqlite.calls < MaxCalls
    /\ SqliteFrame
    /\ \E salt \in BcryptSalts :
         LET hash == hashSyncWithSalt(newPassword, BcryptRounds, salt)
             found == SelectByEmail(sqlite.rows, email)
         IN  sqlite' = [Called("updatePassword", email, newPassword, FALSE, {})
                           EXCEPT !.rows = [i \in 1..Len(@) |->
                                               IF i \in found
                                               THEN [@[i] EXCEPT !.passwordHash = hash]
                                               ELSE @[i]],
                                  !.set = [i \in 1..Len(@) |->
                                               IF i \in found THEN newPassword ELSE @[i]]]

NextSqlite ==
    \/ \E name \in SqliteNames, email \in SqliteEmails, password \in SqlitePasswords :
          registerUser(name, email, password)
    \/ \E email \in SqliteEmails, password \in SqlitePasswords :
          validateUser(email, password)
    \/ \E email \in SqliteEmails, newPassword \in SqlitePasswords :
          updatePassword(email, newPassword)

SpecSqlite == InitSqlite /\ [][NextSqlite]_vars

(***************************************************************************)
(* Vocabulary of the properties.                                           *)
(***************************************************************************)
\* The normalized form of an email: trimmed, lower-cased.
Normalize(email) == toLowerCase(trim(email))

\* The allow-list: the normalized emails of the active customers.
AllowList == {Normalize(c.email) : c \in {r \in BagToSet(customers) : r.active}}

UserRows(table) == {table[i] : i \in 1..Len(table)}

\* The accounts stored for an email, by normalized email.
AccountsOf(table, email) ==
    {r \in UserRows(table) : Normalize(r.email) = Normalize(email)}

\* password is the password the row's credential hash was made from.
IsPasswordOf(password, row) == row.password_hash \in Hashes(password)

PresentEmails == EmailInputs \ {<< >>}
PresentPasswords == PasswordInputs \ {<< >>}

\* The error taxonomy.
IsInvalidInput(r) ==
    /\ r.status = 400
    /\ r.body.error \in {MsgRequired, MsgPasswordTooShort, MsgChangeRequired,
                         MsgNewPasswordTooShort, MsgEmailRequired}
IsNotAuthorized(r) == r.status = 400 /\ r.body.error = MsgNotAllowed
IsAlreadyExists(r) == r.status = 400 /\ r.body.error = MsgExists
IsInvalidCredentials(r) == r.status = 401
IsNotFound(r) == r.status = 404
IsSuccess(r) == r.status = 200 /\ r.body.success = "true"

(***************************************************************************)
(* C1: in every reachable state of the users table, whatever the           *)
(* interleaving of the handlers, at most one account exists for any        *)
(* normalized email.                                                       *)
(***************************************************************************)
C1_OneAccountPerNormalizedEmail ==
    \A i, j \in 1..Len(users) :
        i # j => Normalize(users[i].email) # Normalize(users[j].email)

\* Two /register requests for one email raced past the existence check and
\* the second INSERT was refused.
C1_Witness_RacingInsertRefused ==
    /\ last.op = "register"
    /\ last.status = 500
    /\ Len(users) = 1

(***************************************************************************)
(* C2 as claimed: a /register whose normalized email is absent from the    *)
(* allow-list ends NotAuthorized whatever the password (valid or shorter   *)
(* than 6 characters) and creates no account.                              *)
(***************************************************************************)
C2_Claim_NotAuthorizedWhateverPassword ==
    [][\A p \in Procs, email \in PresentEmails, password \in PresentPasswords :
          (Register(p, email, password) /\ Normalize(email) \notin AllowList)
              => /\ IsNotAuthorized(last')
                 /\ pc'[p] = "idle"
                 /\ users' = users]_vars

(***************************************************************************)
(* C2 amended: a /register whose normalized email is absent from the       *)
(* allow-list creates no account; it ends NotAuthorized when the password  *)
(* has at least 6 characters and InvalidInput when the password is shorter *)
(* (or missing), the password being validated before the allow-list is     *)
(* read.                                                                   *)
(***************************************************************************)
C2_NotAuthorizedAfterValidation ==
    [][\A p \in Procs, email \in PresentEmails, password \in PasswordInputs :
          (Register(p, email, password) /\ Normalize(email) \notin AllowList)
              => /\ IF Len(password) >= MinPasswordLength
                    THEN IsNotAuthorized(last')
                    ELSE IsInvalidInput(last')
                 /\ pc'[p] = "idle"
                 /\ users' = users]_vars

\* A /register was refused as not allow-listed while the allow-list holds
\* a customer (another email, or a deactivated one).
C2_Witness_RefusedNotAllowListed ==
    /\ last.op = "register"
    /\ IsNotAuthorized(last)
    /\ customers # EmptyBag

(***************************************************************************)
(* C3: once an account is registered, a later /register (well-formed and   *)
(* allow-listed) whose email normalizes to the same value ends             *)
(* AlreadyExists and leaves the users table, the stored credential hash    *)
(* included, unchanged.                                                    *)
(***************************************************************************)
C3_SecondRegisterAlreadyExists ==
    [][\A p \in Procs :
          (RegisterFind(p) /\ AccountsOf(users, local[p].email) # {})
              => /\ IsAlreadyExists(last')
                 /\ pc'[p] = "idle"
                 /\ users' = users]_vars

\* A second /register was answered AlreadyExists.
C3_Witness_AlreadyExists ==
    /\ last.op = "register"
    /\ IsAlreadyExists(last)
    /\ Len(users) >= 1

(***************************************************************************)
(* C4: /login with a registered email and a wrong password and /login with *)
(* an email that has no account are answered with the same status and the  *)
(* same body.                                                              *)
(***************************************************************************)
C4_LoginFailuresIndistinguishable ==
    \A e1, e2 \in PresentEmails, pw1, pw2 \in PresentPasswords :
        ( /\ AccountsOf(users, e1) = {}
          /\ AccountsOf(users, e2) # {}
          /\ \A row \in AccountsOf(users, e2) : ~IsPasswordOf(pw2, row) )
        => /\ LoginResponse(users, e1, pw1) = LoginResponse(users, e2, pw2)
           /\ IsInvalidCredentials(LoginResponse(users, e1, pw1))

\* A /login was refused while one email has an account and another has none.
C4_Witness_RefusedLogin ==
    /\ last = Response("login", 401, ErrorBody(MsgBadLogin))
    /\ \E e \in PresentEmails : AccountsOf(users, e) # {}
    /\ \E e \in PresentEmails : AccountsOf(users, e) = {}

(***************************************************************************)
(* C5 as claimed: every successful /login response carries a session       *)
(* credential (signed, expiring 2 hours after issue, claiming the          *)
(* normalized email) next to the public account identity.                  *)
(***************************************************************************)
C5_Claim_LoginIssuesCredential ==
    (last.op = "login" /\ IsSuccess(last))
        => /\ last.body.email # Undefined
           /\ last.body.token # Absent

(***************************************************************************)
(* C6: for all passwords p and p2 and every salt hashPassword may draw,    *)
(* verifyPassword(p, hashPassword(p2)) is true when p = p2 and false       *)
(* otherwise.                                                              *)
(***************************************************************************)
C6_VerifyAcceptsExactlyTheHashedPassword ==
    (check.phase = "verified" /\ check.hashed # Undefined)
        => check.result = (IF check.password = check.hashed THEN "true" ELSE "false")

\* verifyPassword refused a password other than the hashed one.
C6_Witness_OtherPasswordRefused ==
    /\ check.phase = "verified"
    /\ check.hashed # Undefined
    /\ check.password # check.hashed
    /\ check.result = "false"

(***************************************************************************)
(* C7 as claimed: verifyPassword returns false, and never raises, when the *)
(* stored value is malformed: no ':' separator, an empty or missing        *)
(* derived-key part, or a derived-key part that has not the length of a    *)
(* freshly derived key.                                                    *)
(***************************************************************************)
Malformed(stored) ==
    LET parts == Split(stored)
    IN  \/ Len(parts) < 2
        \/ parts[2] = << >>
        \/ Len(parts[2]) # 2 * KeyLen

C7_Claim_MalformedStoredIsFalse ==
    (check.phase = "verified" /\ Malformed(check.stored))
        => check.result = "false"

(***************************************************************************)
(* C8 as claimed: after /change-password succeeds with the correct old     *)
(* password and a new password of at least 6 characters, /login with the   *)
(* new password succeeds and /login with the old password fails, no other  *)
(* mutating request for the account intervening.                           *)
(***************************************************************************)
\* The account is as the handler in slot p found it: it exists and its
\* password is still the old password of the request.
Undisturbed(p) ==
    LET user == findUserByEmail(users, local[p].email)
    IN  /\ user # NullUser
        /\ IsPasswordOf(local[p].oldPassword, user)

C8_Claim_NewPasswordInOldPasswordOut ==
    [][\A p \in Procs :
          (ChangePasswordUpdate(p) /\ Undisturbed(p))
              => /\ IsSuccess(last')
                 /\ IsSuccess(LoginResponse(users', local[p].email, local[p].newPassword))
                 /\ IsInvalidCredentials(
                        LoginResponse(users', local[p].email, local[p].oldPassword))]_vars

(***************************************************************************)
(* C8 amended: after /change-password succeeds with the correct old        *)
(* password and a new password of at least 6 characters, /login with the   *)
(* new password succeeds and, when the new password differs from the old   *)
(* one, /login with the old password fails, no other mutating request for  *)
(* the account intervening.                                                *)
(***************************************************************************)
C8_NewPasswordInDifferentOldPasswordOut ==
    [][\A p \in Procs :
          (ChangePasswordUpdate(p) /\ Undisturbed(p))
              => /\ IsSuccess(last')
                 /\ Len(local[p].newPassword) >= MinPasswordLength
                 /\ IsSuccess(LoginResponse(users', local[p].email, local[p].newPassword))
                 /\ local[p].newPassword # local[p].oldPassword
                        => IsInvalidCredentials(
                               LoginResponse(users', local[p].email, local[p].oldPassword))]_vars

\* A /change-password succeeded and the account holds the new password.
C8_Witness_PasswordChanged ==
    /\ last.op = "change-password"
    /\ IsSuccess(last)
    /\ \E row \in UserRows(users) : IsPasswordOf(PwOther, row)

(***************************************************************************)
(* C9 as claimed: /forgot-password answers an existing and a non-existing  *)
(* account alike: every successful response is the generic                 *)
(* acknowledgment given when there is no account, field for field.         *)
(***************************************************************************)
C9_Claim_ForgotResponseGeneric ==
    (last.op = "forgot-password" /\ last.status = 200)
        => last.body = Body("true", Absent, MsgForgotAck, Undefined, Null, Absent)

(***************************************************************************)
(* C10 as claimed: /forgot-password for an email that has an account       *)
(* replaces the credential hash by that of a fresh temporary password of   *)
(* at least 8 hex characters and delivers the temporary password to the    *)
(* account's address through the Notifier, and to the requester through no *)
(* other channel.                                                          *)
(***************************************************************************)
C10_Claim_TempPasswordMailedOnly ==
    [][\A p \in Procs :
          LET account == findUserByEmail(users, local[p].email)
              temp == local[p].tempPassword
          IN  (ForgotPasswordUpdate(p) /\ account # NullUser)
                  => /\ Len(temp) >= 8
                     /\ \A i \in 1..Len(temp) : IsHexChar(temp[i])
                     /\ IsPasswordOf(temp, findUserByEmail(users', local[p].email))
                     /\ \E m \in outbox' : m.to = account.email /\ m.text = temp
                     /\ last'.body.tempPassword \in {Null, Undefined}]_vars

(***************************************************************************)
(* C11: /forgot-password for an email that has no account answers          *)
(* success, sends no email and leaves the users table unchanged.           *)
(***************************************************************************)
C11_ForgotUnknownChangesNothing ==
    [][\A p \in Procs, email \in PresentEmails :
          (ForgotPassword(p, email) /\ AccountsOf(users, email) = {})
              => /\ pc'[p] = "idle"
                 /\ last'.op = "forgot-password"
                 /\ IsSuccess(last')
                 /\ outbox' = outbox
                 /\ users' = users]_vars

\* /forgot-password was acknowledged for an email without an account while
\* another email has one.
C11_Witness_ForgotUnknownAcknowledged ==
    /\ last = Response("forgot-password", 200,
                       Body("true", Absent, MsgForgotAck, Undefined, Null, Absent))
    /\ users # << >>
    /\ outbox = {}

(***************************************************************************)
(* C12 as claimed: /delete-account removes the account exactly when the    *)
(* account exists and the password supplied is the account's: an unknown   *)
(* email is answered NotFound and a wrong password InvalidCredentials,     *)
(* both deleting nothing; otherwise the request goes on to the removal,    *)
(* after which no account for the email remains and no /login for it       *)
(* succeeds.                                                               *)
(***************************************************************************)
C12_Claim_DeleteExactlyWhenVerified ==
    [][/\ \A p \in Procs, email \in PresentEmails, password \in PresentPasswords :
             DeleteAccount(p, email, password)
                 => IF AccountsOf(users, email) = {}
                    THEN IsNotFound(last') /\ pc'[p] = "idle" /\ users' = users
                    ELSE IF \A row \in AccountsOf(users, email) : ~IsPasswordOf(password, row)
                    THEN IsInvalidCredentials(last') /\ pc'[p] = "idle" /\ users' = users
                    ELSE pc'[p] = "delete-account:delete" /\ users' = users
       /\ \A p \in Procs :
             DeleteAccountDelete(p)
                 => /\ IsSuccess(last')
                    /\ AccountsOf(users', local[p].email) = {}
                    /\ \A password \in PresentPasswords :
                           ~IsSuccess(LoginResponse(users', local[p].email, password))]_vars

(***************************************************************************)
(* C13 as claimed: /change-password and /delete-account answer NotFound    *)
(* only to a caller already authenticated; a caller naming an email that   *)
(* has no account, who therefore holds no password of it, is never         *)
(* answered NotFound.                                                      *)
(***************************************************************************)
C13_Claim_NotFoundOnlyAfterAuthentication ==
    [][/\ \A p \in Procs, email \in PresentEmails, password \in PresentPasswords :
             (DeleteAccount(p, email, password) /\ AccountsOf(users, email) = {})
                 => ~IsNotFound(last')
       /\ \A p \in Procs, email \in PresentEmails,
             oldPassword \in PresentPasswords, newPassword \in PresentPasswords :
             (ChangePassword(p, email, oldPassword, newPassword)
                  /\ AccountsOf(users, email) = {})
                 => ~IsNotFound(last')]_vars

(***************************************************************************)
(* C14: a /register that answers success has created exactly one account,  *)
(* for the normalized email of the request, and a /register that answers   *)
(* a failure (validation, allow-list, uniqueness) leaves the users table   *)
(* as it was.                                                              *)
(***************************************************************************)
\* The step sends the response of a /register request.
RegisterResponds ==
    /\ last'.op = "register"
    /\ \/ requests' = requests + 1 /\ pc' = pc
       \/ \E p \in Procs : pc[p] \in {"register:find", "register:insert"} /\ pc'[p] = "idle"

C14_RegisterCreatesOneOrNothing ==
    [][/\ RegisterResponds
          => IF IsSuccess(last')
             THEN \E row \in UserRows(users') :
                      /\ users' = Append(users, row)
                      /\ row.email = Normalize(row.email)
                      /\ AccountsOf(users, row.email) = {}
             ELSE users' = users
       /\ \A p \in Procs :
             /\ RegisterFind(p) => users' = users
             /\ RegisterInsert(p) => RegisterResponds
             /\ (RegisterInsert(p) /\ AccountsOf(users, local[p].emailLower) = {})
                    => IsSuccess(last')]_vars

\* A /register succeeded and the table holds its account.
C14_Witness_Registered ==
    /\ last = Response("register", 200, SuccessBody(MsgRegistered))
    /\ Len(users) = 1

(***************************************************************************)
(* C15: a /change-password request that fails (NotFound,                   *)
(* InvalidCredentials or InvalidInput) leaves every account's credential   *)
(* hash unchanged; only the update step of a request that passed all       *)
(* three checks answers success.                                           *)
(***************************************************************************)
\* The step sends the response of a /change-password request that was
\* decided before any UPDATE.
ChangePasswordRefused ==
    /\ last'.op = "change-password"
    /\ requests' = requests + 1
    /\ pc' = pc

C15_FailedChangeKeepsHashes ==
    [][/\ ChangePasswordRefused
          => /\ IsInvalidInput(last') \/ IsNotFound(last') \/ IsInvalidCredentials(last')
             /\ users' = users
       /\ \A p \in Procs :
             ChangePasswordUpdate(p)
                 => /\ IsSuccess(last')
                    /\ Len(local[p].newPassword) >= MinPasswordLength]_vars

\* A /change-password with a wrong old password was refused and the account
\* is still there.
C15_Witness_WrongOldPasswordRefused ==
    /\ last = Response("change-password", 401, ErrorBody(MsgBadOldPassword))
    /\ users # << >>

(***************************************************************************)
(* C16 as claimed: an account registered under an email is found for every *)
(* input that differs from it only in letter case or in leading and        *)
(* trailing whitespace: /login with such an input and the account's        *)
(* password succeeds.                                                      *)
(***************************************************************************)
C16_Claim_LookupNormalizes ==
    \A email \in PresentEmails, password \in PresentPasswords :
        (\E row \in AccountsOf(users, email) : IsPasswordOf(password, row))
            => IsSuccess(LoginResponse(users, email, password))

(***************************************************************************)
(* C17: in every reachable state every stored credential hash is           *)
(* non-empty, has the form salt:derivedKey with a salt of 16 bytes and a   *)
(* key of 64 bytes in hex, was produced by hashPassword, and is not a      *)
(* plaintext password.                                                     *)
(***************************************************************************)
WellFormedHash(h) ==
    LET parts == Split(h)
    IN  /\ h # << >>
        /\ Len(parts) = 2
        /\ Len(parts[1]) = 2 * SaltBytes
        /\ Len(parts[2]) = 2 * KeyLen
        /\ \A i \in 1..Len(parts[1]) : IsHexChar(parts[1][i])
        /\ \A i \in 1..Len(parts[2]) : IsHexChar(parts[2][i])

C17_StoredHashesAreHashes ==
    \A row \in UserRows(users) :
        /\ WellFormedHash(row.password_hash)
        /\ row.password_hash \notin KnownPasswords
        /\ \E password \in KnownPasswords : IsPasswordOf(password, row)

\* /forgot-password has replaced an account's hash by that of a temporary
\* password.
C17_Witness_TempPasswordHashed ==
    /\ last.op = "forgot-password"
    /\ \E row \in UserRows(users), temp \in TempPasswords : IsPasswordOf(temp, row)

(***************************************************************************)
(* C18 as claimed: every 500 response is generic: it carries no text of    *)
(* the fault that caused it.                                               *)
(***************************************************************************)
C18_Claim_FaultResponsesGeneric ==
    last.status = 500 => last.body.detail = Absent

(***************************************************************************)
(* C20 as claimed: when two /register requests for one allow-listed        *)
(* normalized email both pass the existence check, the INSERT of the       *)
(* second is answered AlreadyExists (400) and creates nothing, the first   *)
(* having created the one account and answered success.                    *)
(***************************************************************************)
C20_Claim_RaceLoserAlreadyExists ==
    [][\A p \in Procs :
          RegisterInsert(p)
              => IF AccountsOf(users, local[p].emailLower) = {}
                 THEN IsSuccess(last') /\ Len(users') = Len(users) + 1
                 ELSE IsAlreadyExists(last') /\ users' = users]_vars

(***************************************************************************)
(* C19: when /change-password requests for one account that all carried    *)
(* the then correct old password run concurrently, every update leaves the *)
(* account with exactly the hash its own request computed for its new      *)
(* password, so the final hash is that of the update applied last: a       *)
(* well-formed hash of that new password, no row added or lost, and, the   *)
(* new password differing from the old one, not a hash of the old          *)
(* password.                                                               *)
(***************************************************************************)
C19_LastWriteWins ==
    [][\A p \in Procs :
          ChangePasswordUpdate(p)
              => LET after == findUserByEmail(users', local[p].email)
                 IN  /\ Len(users') = Len(users)
                     /\ after # NullUser
                     /\ after.password_hash = local[p].passwordHash
                     /\ WellFormedHash(after.password_hash)
                     /\ IsPasswordOf(local[p].newPassword, after)
                     /\ local[p].newPassword # local[p].oldPassword
                            => ~IsPasswordOf(local[p].oldPassword, after)]_vars

\* One request has applied its update while another, which verified the
\* old password before that update, still holds its own.
C19_Witness_SecondWriterPending ==
    \E p \in Procs :
        /\ pc[p] = "change-password:update"
        /\ last = Response("change-password", 200, SuccessBody(MsgPasswordChanged))
        /\ \E row \in UserRows(users) :
               /\ ~IsPasswordOf(local[p].oldPassword, row)
               /\ row.password_hash # local[p].passwordHash

(***************************************************************************)
(* C22: GET /admin/customers lists the customers table, and POST           *)
(* /admin/customers and /admin/customers/deactivate change it, only for a  *)
(* request whose x-admin-key equals a non-empty ADMIN_KEY; every other     *)
(* request to them, an empty or missing key against an unset ADMIN_KEY     *)
(* included, is answered 403 and changes nothing; and nothing else changes *)
(* the table.                                                              *)
(***************************************************************************)
Authorized(key) == ADMIN_KEY # << >> /\ key = ADMIN_KEY

C22_AdminRoutesNeedTheKey ==
    [][/\ \A p \in Procs, key \in AdminKeyInputs :
             (last'.op = "admin-list" /\ AdminListCustomers(p, key))
                 => IF Authorized(key)
                    THEN last'.status = 200 /\ last'.body.customers = {customers}
                    ELSE last'.status = 403 /\ last'.body.customers = {}
       /\ \A p \in Procs, key \in AdminKeyInputs, email \in EmailInputs :
             /\ (last'.op = "admin-save" /\ ~Authorized(key)
                    /\ AdminSaveCustomer(p, key, email))
                    => last'.status = 403 /\ customers' = customers
             /\ (last'.op = "admin-deactivate" /\ ~Authorized(key)
                    /\ AdminDeactivateCustomer(p, key, email))
                    => last'.status = 403 /\ customers' = customers
       /\ customers' # customers
             => /\ ADMIN_KEY # << >>
                /\ last'.op \in {"admin-save", "admin-deactivate"}
                /\ last'.status = 200]_vars

\* With ADMIN_KEY unset a deactivation was refused and the table is empty.
C22_Witness_RefusedWithoutConfiguredKey ==
    /\ ADMIN_KEY = << >>
    /\ last = Response("admin-deactivate", 403, ErrorBody(MsgForbidden))
    /\ customers = EmptyBag

(***************************************************************************)
(* C23 as claimed: once an authorized /admin/customers/deactivate for an   *)
(* email has completed, no row of the customers table is active for that   *)
(* email, however many rows it has; a well-formed /register that starts    *)
(* while no row is active for its email is answered NotAuthorized; and a   *)
(* /register goes on to create an account only when its email was active   *)
(* in the allow-list it read.                                              *)
(***************************************************************************)
\* The normalized emails that have an active row in a customers table.
ActiveEmails(table) == {Normalize(c.email) : c \in {r \in BagToSet(table) : r.active}}

C23_Claim_DeactivatedStaysRefused ==
    [][/\ \A p \in Procs, key \in AdminKeyInputs, email \in PresentEmails :
             (last'.op = "admin-deactivate" /\ Authorized(key)
                  /\ AdminDeactivateCustomer(p, key, email))
                 => Normalize(email) \notin ActiveEmails(customers')
       /\ \A p \in Procs, email \in PresentEmails, password \in PresentPasswords :
             Register(p, email, password)
                 => /\ (Normalize(email) \notin ActiveEmails(customers)
                          /\ Len(password) >= MinPasswordLength)
                        => IsNotAuthorized(last') /\ pc'[p] = "idle"
                    /\ pc'[p] = "register:find"
                        => Normalize(email) \in ActiveEmails(customers)]_vars

(***************************************************************************)
(* C21 as claimed: whenever /change-password or /forgot-password answers   *)
(* success for a new or temporary password, an account for the email       *)
(* existed when the UPDATE ran and its stored hash is now a hash of that   *)
(* password, a /delete-account between the lookup and the UPDATE           *)
(* included.                                                               *)
(***************************************************************************)
C21_Claim_SuccessMeansUpdated ==
    [][\A p \in Procs :
          /\ (ChangePasswordUpdate(p) /\ IsSuccess(last'))
                 => /\ findUserByEmail(users, local[p].email) # NullUser
                    /\ IsPasswordOf(local[p].newPassword,
                                    findUserByEmail(users', local[p].email))
          /\ (ForgotPasswordUpdate(p) /\ IsSuccess(last'))
                 => /\ findUserByEmail(users, local[p].email) # NullUser
                    /\ IsPasswordOf(local[p].tempPassword,
                                    findUserByEmail(users', local[p].email))]_vars

(***************************************************************************)
(* C25 as claimed: submitting the login form with the email of a           *)
(* registered account logs the visitor in: /login answers success,         *)
(* loggedInEmail is stored and the page goes to the shop; with an email    *)
(* that has no account the not-in-system error is shown and nothing is     *)
(* stored.                                                                 *)
(***************************************************************************)
C25_Claim_FormLogsRegisteredVisitorIn ==
    [][\A p \in Procs, value \in PresentEmails :
          LoginFormSubmit(p, value)
              => IF AccountsOf(users, value) # {}
                 THEN /\ last'.op = "login"
                      /\ IsSuccess(last')
                      /\ browser'.loggedInEmail = trim(value)
                      /\ browser'.page = "index.html"
                 ELSE /\ browser'.error = MsgNotInSystem
                      /\ browser'.loggedInEmail = browser.loggedInEmail
                      /\ browser'.page = browser.page]_vars

(***************************************************************************)
(* C24 as claimed: for a cart item of either shop script the unit_amount   *)
(* handed to Stripe is the item's price in pence, round(100 * price),      *)
(* raised to 30 when below: an integer of at least 30 and never 100 times  *)
(* the price in pence.                                                     *)
(***************************************************************************)
C24_Claim_UnitAmountIsPriceInPence ==
    checkout.phase = "session"
        => LET pence == MathRound(checkout.price * 100)
           IN  /\ checkout.unit_amount = (IF pence < 30 THEN 30 ELSE pence)
               /\ checkout.unit_amount >= 30
               /\ checkout.unit_amount # 100 * pence

\* A call of the store's function fn is made in this step.
SqliteCall(fn) == sqlite'.calls = sqlite.calls + 1 /\ sqlite'.call = fn

\* The password last given to the account of an email, if it has one.
PasswordSet(store, email) ==
    {store.set[i] : i \in SelectByEmail(store.rows, email)}

(***************************************************************************)
(* C26 as claimed: in the SQLite store validateUser(e, q) returns the user *)
(* of e exactly when q is the password registerUser or updatePassword last *)
(* gave that account and null for every other q; registerUser on an email  *)
(* that has a row throws and inserts nothing, otherwise it adds the one    *)
(* row; updatePassword on an email without a row changes nothing.          *)
(***************************************************************************)
C26_Claim_StoreValidatesExactlyTheSetPassword ==
    [][ /\ SqliteCall("validateUser")
            => sqlite'.returned =
                  (IF sqlite'.password \in PasswordSet(sqlite, sqlite'.email)
                   THEN {sqlite.rows[i] : i \in SelectByEmail(sqlite.rows, sqlite'.email)}
                   ELSE {})
        /\ SqliteCall("registerUser")
            => IF SelectByEmail(sqlite.rows, sqlite'.email) # {}
               THEN sqlite'.threw /\ sqlite'.rows = sqlite.rows
               ELSE /\ ~sqlite'.threw
                    /\ Len(sqlite'.rows) = Len(sqlite.rows) + 1
                    /\ PasswordSet(sqlite', sqlite'.email) = {sqlite'.password}
        /\ SqliteCall("updatePassword")
            => IF SelectByEmail(sqlite.rows, sqlite'.email) = {}
               THEN sqlite'.rows = sqlite.rows
               ELSE PasswordSet(sqlite', sqlite'.email) = {sqlite'.password}
      ]_vars

====
